---- MODULE Spec2Model ----
(***************************************************************************)
(* Model of the SN13 diagnostics server (mcp-servers/sn13-diagnostics/     *)
(* server.py): the catalog loader, the scan_logs, lookup_error and         *)
(* check_x_accounts branches of call_tool.                                 *)
(*                                                                         *)
(* The server keeps no state of its own between calls.  The state of the   *)
(* model is the environment a call reads (the catalog file, the pm2 log    *)
(* text, the cookie files) and the result of the last call.                *)
(*                                                                         *)
(* Text is modelled as sequences of one-character strings.  Timestamps     *)
(* and the cookie file age are not modelled; of a catalog entry the        *)
(* fields id, severity, pattern and fix are modelled (category and         *)
(* root_cause are copied exactly as fix is).                               *)
(***************************************************************************)
EXTENDS Integers, Sequences, FiniteSets, TLC

VARIABLES
  catalogFile,   \* state of ERROR_CATALOG_PATH: missing, unreadable, malformed, valid
  catalog,       \* what json.load gives for a valid catalog file
  logs,          \* what get_recent_logs returns
  cookies,       \* the account numbers whose cookie file exists
  arguments,     \* the arguments of the last call_tool
  result         \* what the last call_tool returned (or that it raised)

vars == <<catalogFile, catalog, logs, cookies, arguments, result>>

----------------------------------------------------------------------------
(* Bounds of the model.                                                    *)

MaxEntries == 2

MaxPatLen == 1

MaxLogLen == 2

MaxQueryLen == 2

MaxLines == 2

MaxAccounts == 2

----------------------------------------------------------------------------
(* Strings: str.upper, str.lower, the "in" operator.                       *)

LowerCase ==
  <<"a","b","c","d","e","f","g","h","i","j","k","l","m",
    "n","o","p","q","r","s","t","u","v","w","x","y","z">>

UpperCase ==
  <<"A","B","C","D","E","F","G","H","I","J","K","L","M",
    "N","O","P","Q","R","S","T","U","V","W","X","Y","Z">>

\* The letters that str.lower / str.upper change, with what they become.
ToLower ==
  [c \in {UpperCase[k] : k \in 1..26} |->
     LowerCase[CHOOSE k \in 1..26 : UpperCase[k] = c]]

ToUpper ==
  [c \in {LowerCase[k] : k \in 1..26} |->
     UpperCase[CHOOSE k \in 1..26 : LowerCase[k] = c]]

LowerChar(c) == IF c \in DOMAIN ToLower THEN ToLower[c] ELSE c

UpperChar(c) == IF c \in DOMAIN ToUpper THEN ToUpper[c] ELSE c

Lower(s) == [i \in 1..Len(s) |-> LowerChar(s[i])]

Upper(s) == [i \in 1..Len(s) |-> UpperChar(s[i])]

\* needle in hay
Contains(hay, needle) ==
  \E k \in 0..(Len(hay) - Len(needle)) :
    SubSeq(hay, k + 1, k + Len(needle)) = needle

SeqsUpTo(S, n) == UNION {[1..k -> S] : k \in 0..n}

----------------------------------------------------------------------------
(* The catalog.                                                            *)

DefaultCatalog == [version |-> "0", errors |-> <<>>]

\* The outcome of load_error_catalog: the file does not exist (the default
\* catalog), exists and parses (its content), or exists and cannot be opened
\* or parsed (open / json.load raise, and nothing catches).
load_error_catalog ==
  IF catalogFile /= "missing"
    THEN IF catalogFile = "valid"
           THEN [raised |-> FALSE, value |-> catalog]
           ELSE [raised |-> TRUE]
    ELSE [raised |-> FALSE, value |-> DefaultCatalog]

NoResult == [tool |-> "none"]

NoArguments == <<>>

\* arguments.get(key, default)
Get(args, key, default) == IF key \in DOMAIN args THEN args[key] ELSE default

Raised(tool) == [tool |-> tool, raised |-> TRUE]

----------------------------------------------------------------------------
(* scan_logs.                                                              *)

\* re.search(pattern, logs, re.IGNORECASE) raises re.error for a pattern
\* that does not compile.  The patterns of the model are literal text and
\* the character "(", which opens a group that nothing closes.
Compiles(pattern) == \A i \in 1..Len(pattern) : pattern[i] /= "("

ReSearchCaseSensitive(pattern, text) == Contains(text, pattern)

ReSearch(pattern, text) == Contains(Lower(text), Lower(pattern))

Finding(err) == [id |-> err.id, severity |-> err.severity, fix |-> err.fix]

ExceptReErrorRecords(found, err) == Append(found, Finding(err))

\* except re.error: pass
ExceptReError(found, err) == found

ScanEntry(found, err, text) ==
  LET pattern == err.pattern IN
  IF pattern /= <<>>
    THEN IF Compiles(pattern)
           THEN IF ReSearch(pattern, text)
                  THEN Append(found, Finding(err))
                  ELSE found
           ELSE ExceptReError(found, err)
    ELSE found

RECURSIVE ScanLoop(_, _, _)
ScanLoop(found, errors, text) ==
  IF errors = <<>>
    THEN found
    ELSE ScanLoop(ScanEntry(found, Head(errors), text), Tail(errors), text)

ScanStatusAllHigh(found) ==
  IF found = <<>>
    THEN "healthy"
    ELSE IF \A i \in 1..Len(found) : found[i].severity = "high"
           THEN "critical"
           ELSE "warning"

ScanStatus(found) ==
  IF found = <<>>
    THEN "healthy"
    ELSE IF \E i \in 1..Len(found) : found[i].severity = "high"
           THEN "critical"
           ELSE "warning"

ScanResult(lines, cat, text) ==
  LET found == ScanLoop(<<>>, cat.errors, text) IN
  [tool |-> "scan_logs", raised |-> FALSE,
   lines_scanned |-> lines,
   catalog_version |-> cat.version,
   errors_found |-> found,
   count |-> Len(found),
   status |-> ScanStatus(found)]

DefaultLines == 500

scan_logs(args) ==
  /\ arguments' = args
  /\ result' = IF load_error_catalog.raised
                 THEN Raised("scan_logs")
                 ELSE ScanResult(Get(args, "lines", DefaultLines),
                                 load_error_catalog.value, logs)
  /\ UNCHANGED <<catalogFile, catalog, logs, cookies>>

----------------------------------------------------------------------------
(* Inputs of scan_logs.                                                    *)

Severities == {"low", "medium", "high"}

PatChars == {"A", "("}

LogChars == {"a", "b"}

Digit == <<"1", "2", "3", "4", "5", "6", "7", "8", "9">>

\* Entry ids are unique in a catalog: the entry at position i is X<i>.
ScanBodies == [severity : Severities, pattern : SeqsUpTo(PatChars, MaxPatLen)]

ScanErrors ==
  UNION {{[i \in 1..n |-> [id |-> <<"X", Digit[i]>>,
                            severity |-> b[i].severity,
                            pattern |-> b[i].pattern,
                            fix |-> <<>>]] : b \in [1..n -> ScanBodies]}
         : n \in 0..MaxEntries}

InitFile(errorLists) ==
  \/ /\ catalogFile = "valid"
     /\ catalog \in [version : {"1"}, errors : errorLists]
  \/ /\ catalogFile \in {"missing", "unreadable", "malformed"}
     /\ catalog = DefaultCatalog

InitScan ==
  /\ InitFile(ScanErrors)
  /\ logs \in SeqsUpTo(LogChars, MaxLogLen)
  /\ cookies = {}
  /\ arguments = NoArguments
  /\ result = NoResult

ScanArgs == {NoArguments} \cup [lines : {100}]

NextScan == \E args \in ScanArgs : scan_logs(args)

SpecScan == InitScan /\ [][NextScan]_vars

----------------------------------------------------------------------------
(* Properties of scan_logs and of the catalog loader (under SpecScan).     *)

Scanned == result.tool = "scan_logs" /\ ~result.raised

\* The catalog the scan worked on (the environment does not change).
Loaded == load_error_catalog.value.errors

\* What it means for a pattern to match a text case-insensitively: it is a
\* regular expression (it compiles) that is found somewhere in the text,
\* letters compared without case.  The empty pattern matches every text.
PatternMatches(pattern, text) ==
  /\ Compiles(pattern)
  /\ \E k \in 0..Len(text) : \E n \in 0..(Len(text) - k) :
       Lower(SubSeq(text, k + 1, k + n)) = Lower(pattern)

Reported(err) ==
  \E i \in 1..Len(result.errors_found) : result.errors_found[i].id = err.id

HasInvalidPattern(errors) ==
  \E i \in 1..Len(errors) : ~Compiles(errors[i].pattern)

Findings(errors) ==
  [i \in 1..Len(errors) |->
     [id |-> errors[i].id, severity |-> errors[i].severity, fix |-> errors[i].fix]]

\* C1: the status of a scan is healthy exactly when there are no findings,
\* critical exactly when some finding has severity high, warning in every
\* other case; an empty catalog gives healthy for every log text.
C1_ScanStatus ==
  Scanned =>
    LET f == result.errors_found
        high == \E i \in 1..Len(f) : f[i].severity = "high"
    IN /\ (result.status = "healthy") <=> (Len(f) = 0)
       /\ (result.status = "critical") <=> high
       /\ (result.status = "warning") <=> (Len(f) > 0 /\ ~high)
       /\ Loaded = <<>> => result.status = "healthy"

\* A scan that is critical with a high finding beside a finding of lower
\* severity.
C1_Witness ==
  /\ Scanned
  /\ result.status = "critical"
  /\ \E i, j \in 1..Len(result.errors_found) :
       /\ result.errors_found[i].severity = "high"
       /\ result.errors_found[j].severity = "low"

\* C2: loading the catalog never raises: with the catalog file missing,
\* unreadable or malformed the call still returns a well-formed result, built
\* from the default catalog (version "0", no entries).
C2_LoadNeverRaises ==
  result.tool = "scan_logs" =>
    /\ ~result.raised
    /\ catalogFile /= "valid" =>
         /\ result.catalog_version = "0"
         /\ result.errors_found = <<>>
         /\ result.status = "healthy"

\* C6 (as claimed): with an entry whose pattern does not compile in the
\* catalog, the scan does not raise, every entry whose pattern is valid and
\* matches is reported, and no entry with an invalid pattern is reported.
C6_InvalidSkipped_Claimed ==
  (result.tool = "scan_logs" /\ catalogFile = "valid" /\ HasInvalidPattern(catalog.errors)) =>
    /\ ~result.raised
    /\ \A i \in 1..Len(Loaded) :
         /\ PatternMatches(Loaded[i].pattern, logs) => Reported(Loaded[i])
         /\ ~Compiles(Loaded[i].pattern) => ~Reported(Loaded[i])

\* C6 (amended): with an entry whose pattern does not compile in the catalog,
\* the scan does not raise, every entry whose pattern is non-empty, valid and
\* matches is reported, and no entry with an invalid pattern is reported.
C6_InvalidSkipped ==
  (result.tool = "scan_logs" /\ catalogFile = "valid" /\ HasInvalidPattern(catalog.errors)) =>
    /\ ~result.raised
    /\ \A i \in 1..Len(Loaded) :
         /\ (Loaded[i].pattern /= <<>> /\ PatternMatches(Loaded[i].pattern, logs))
              => Reported(Loaded[i])
         /\ ~Compiles(Loaded[i].pattern) => ~Reported(Loaded[i])

\* A scan of a catalog whose first entry has an invalid pattern and whose
\* later entry matches and is reported.
C6_Witness ==
  /\ Scanned
  /\ Len(Loaded) >= 2
  /\ ~Compiles(Loaded[1].pattern)
  /\ PatternMatches(Loaded[2].pattern, logs)
  /\ Reported(Loaded[2])

\* C7 (as claimed): the findings are exactly the entries whose pattern
\* matches the log text case-insensitively, once each, in catalog order, and
\* count is their number.
C7_FindingsExact_Claimed ==
  Scanned =>
    LET Hit(err) == PatternMatches(err.pattern, logs) IN
    /\ result.errors_found = Findings(SelectSeq(Loaded, Hit))
    /\ result.count = Len(result.errors_found)

\* C7 (amended): the findings are exactly the entries whose pattern is not
\* empty and matches the log text case-insensitively, once each, in catalog
\* order, and count is their number.
C7_FindingsExact ==
  Scanned =>
    LET Hit(err) == err.pattern /= <<>> /\ PatternMatches(err.pattern, logs) IN
    /\ result.errors_found = Findings(SelectSeq(Loaded, Hit))
    /\ result.count = Len(result.errors_found)

\* A scan with two findings of different severity, from a log text in which
\* the pattern occurs twice and in the other letter case.
C7_Witness ==
  /\ Scanned
  /\ logs = <<"a", "a">>
  /\ result.count = 2
  /\ result.errors_found[1].severity /= result.errors_found[2].severity

----------------------------------------------------------------------------
(* lookup_error.                                                           *)

SeverityText(severity) ==
  CASE severity = "low" -> <<"l", "o", "w">>
    [] severity = "medium" -> <<"m", "e", "d", "i", "u", "m">>
    [] severity = "high" -> <<"h", "i", "g", "h">>

JsonString(s) == <<"\"">> \o s \o <<"\"">>

JsonMember(key, value) == JsonString(key) \o <<":", " ">> \o JsonString(value)

\* json.dumps(err): the entry's members in the order of the catalog file.
\* (The characters of the model need no escaping.)
Dumps(err) ==
  <<"{">> \o JsonMember(<<"i", "d">>, err.id)
    \o <<",", " ">>
    \o JsonMember(<<"s", "e", "v", "e", "r", "i", "t", "y">>, SeverityText(err.severity))
    \o <<",", " ">>
    \o JsonMember(<<"p", "a", "t", "t", "e", "r", "n">>, err.pattern)
    \o <<",", " ">>
    \o JsonMember(<<"f", "i", "x">>, err.fix)
    \o <<"}">>

LookupEntryIdOnly(matches, err, query) ==
  IF Upper(err.id) = query THEN Append(matches, err) ELSE matches

\* query is the upper-cased argument
LookupEntry(matches, err, query) ==
  IF Upper(err.id) = query
    THEN Append(matches, err)
    ELSE IF Contains(Lower(Dumps(err)), Lower(query))
           THEN Append(matches, err)
           ELSE matches

RECURSIVE LookupLoop(_, _, _)
LookupLoop(matches, errors, query) ==
  IF errors = <<>>
    THEN matches
    ELSE LookupLoop(LookupEntry(matches, Head(errors), query), Tail(errors), query)

LookupResult(query, cat) ==
  LET matches == LookupLoop(<<>>, cat.errors, query) IN
  [tool |-> "lookup_error", raised |-> FALSE,
   query |-> query,
   matches |-> matches,
   count |-> Len(matches)]

lookup_error(args) ==
  /\ arguments' = args
  /\ result' = IF load_error_catalog.raised
                 THEN Raised("lookup_error")
                 ELSE LookupResult(Upper(Get(args, "query", <<>>)),
                                   load_error_catalog.value)
  /\ UNCHANGED <<catalogFile, catalog, logs, cookies>>

----------------------------------------------------------------------------
(* Inputs of lookup_error.                                                 *)

LookupIds == {<<"X", "1">>, <<"x", "1">>, <<"X", "2">>}

LookupFixes == {<<>>, <<"x", "1">>}

QueryChars == {"x", "X", "1"}

LookupErrors ==
  SeqsUpTo([id : LookupIds, severity : {"low"}, pattern : {<<"A">>},
            fix : LookupFixes], MaxEntries)

InitLookup ==
  /\ InitFile(LookupErrors)
  /\ logs = <<>>
  /\ cookies = {}
  /\ arguments = NoArguments
  /\ result = NoResult

LookupArgs == {NoArguments} \cup [query : SeqsUpTo(QueryChars, MaxQueryLen)]

NextLookup == \E args \in LookupArgs : lookup_error(args)

SpecLookup == InitLookup /\ [][NextLookup]_vars

----------------------------------------------------------------------------
(* Properties of lookup_error (under SpecLookup).                          *)

LookedUp == result.tool = "lookup_error" /\ ~result.raised

Query == Get(arguments, "query", <<>>)

\* The query and the id are equal when case is ignored.
IdIs(err, query) == Lower(err.id) = Lower(query)

QueryIsSomeId == \E i \in 1..Len(Loaded) : IdIs(Loaded[i], Query)

\* C3 (as claimed): for a query that is some entry's id, case ignored, the
\* matches are exactly the entries with that id, case ignored, and count is
\* their number.
C3_LookupById_Claimed ==
  (LookedUp /\ QueryIsSomeId) =>
    LET Same(err) == IdIs(err, Query) IN
    /\ result.matches = SelectSeq(Loaded, Same)
    /\ result.count = Len(SelectSeq(Loaded, Same))

\* C3 (amended): for a query that is some entry's id, case ignored, the
\* matches are the entries with that id, case ignored, together with every
\* other entry whose JSON text contains the query, case ignored (an entry of
\* another id whose fix mentions the queried id is a match); count is the
\* number of matches.
C3_LookupById ==
  (LookedUp /\ QueryIsSomeId) =>
    LET Same(err) == IdIs(err, Query)
        Mentions(err) == Contains(Lower(Dumps(err)), Lower(Query))
        Match(err) == Same(err) \/ Mentions(err)
    IN /\ result.matches = SelectSeq(Loaded, Match)
       /\ result.count = Len(result.matches)

\* A lookup by id that also returns an entry of another id, whose fix
\* mentions the queried id.
C3_Witness ==
  /\ LookedUp
  /\ QueryIsSomeId
  /\ \E i \in 1..Len(result.matches) :
       /\ ~IdIs(result.matches[i], Query)
       /\ Contains(Lower(result.matches[i].fix), Lower(Query))

----------------------------------------------------------------------------
(* check_x_accounts.                                                       *)

(* A log line that mentions an account reads one of                        *)
(*     [X.]twikit_account<acct>                    signal "none"           *)
(*     [X.]twikit_account<acct> ... 429            signal "429"            *)
(*     Pagination ... 429 ... [X.]twikit_account<acct>   "pagination"      *)
(*     [X.]twikit_account<acct> ... 403            signal "403"            *)
(* (403 stands for the authorization signals 403, 401, expired,            *)
(* suspended) and is the record [x, acct, signal]; x says that "X."        *)
(* precedes the account.                                                   *)

DigitChar(d) == IF d = 0 THEN "0" ELSE Digit[d]

\* str(acc_num)
Digits(n) == IF n < 10 THEN <<DigitChar(n)>> ELSE <<DigitChar(n \div 10), DigitChar(n % 10)>>

IsPrefix(s, t) == Len(s) <= Len(t) /\ SubSeq(t, 1, Len(s)) = s

\* acct_tag = "twikit_account<acc_num>" is found in the text
\* "twikit_account<acct>" of the line: a regular expression matches anywhere,
\* so the digits of acc_num need only begin those of acct.
TagFound(acc_num, line) == IsPrefix(Digits(acc_num), Digits(line.acct))

\* len(re.findall(rf"X\.{acct_tag}", logs))
ScheduledCount(acc_num, text) ==
  Cardinality({i \in 1..Len(text) : TagFound(acc_num, text[i]) /\ text[i].x})

\* len(re.findall(rf"{acct_tag}.*429|Pagination.*429.*{acct_tag}", logs, re.IGNORECASE)):
\* "." does not match a line break, and ".*" takes all it can, so a line counts once.
Scrape429s(acc_num, text) ==
  Cardinality({i \in 1..Len(text) :
     TagFound(acc_num, text[i]) /\ text[i].signal \in {"429", "pagination"}})

\* len(re.findall(rf"{acct_tag}.*(403|401|expired|suspended)", logs, re.IGNORECASE))
ScrapeErrors(acc_num, text) ==
  Cardinality({i \in 1..Len(text) : TagFound(acc_num, text[i]) /\ text[i].signal = "403"})

ClassifyRateFirst(scheduled_count, scrape_429s, scrape_errors) ==
  IF scrape_429s > 0
    THEN "rate_limited"
    ELSE IF scheduled_count > 0 /\ scrape_errors = 0
           THEN "active"
           ELSE IF scrape_errors > 0 THEN "error" ELSE "idle"

\* Determine status from activity
Classify(scheduled_count, scrape_429s, scrape_errors) ==
  IF scheduled_count > 0 /\ scrape_errors = 0
    THEN "active"
    ELSE IF scrape_429s > 0
           THEN "rate_limited"
           ELSE IF scrape_errors > 0 THEN "error" ELSE "idle"

MinedInfo(acc_num, text) ==
  LET scheduled_count == ScheduledCount(acc_num, text)
      scrape_429s == Scrape429s(acc_num, text)
      scrape_errors == ScrapeErrors(acc_num, text)
  IN [account |-> acc_num,
      cookie_file |-> TRUE,
      log_mentions |-> scheduled_count,
      rate_limits |-> scrape_429s,
      errors |-> scrape_errors,
      scheduled |-> scheduled_count > 0,
      status |-> Classify(scheduled_count, scrape_429s, scrape_errors)]

MissingInfoMined(acc_num, text) ==
  [MinedInfo(acc_num, text) EXCEPT !.cookie_file = FALSE, !.status = "missing"]

\* the cookie file does not exist
MissingInfo(acc_num, text) ==
  [account |-> acc_num, status |-> "missing", cookie_file |-> FALSE]

AcctInfo(acc_num, text) ==
  IF acc_num \notin cookies
    THEN MissingInfo(acc_num, text)
    ELSE MinedInfo(acc_num, text)

PrependResult(results, acct_info) == <<acct_info>> \o results

\* results.append(acct_info)
AppendResult(results, acct_info) == Append(results, acct_info)

RECURSIVE AccountsLoop(_, _, _)
AccountsLoop(results, accounts, text) ==
  IF accounts = <<>>
    THEN results
    ELSE AccountsLoop(AppendResult(results, AcctInfo(Head(accounts), text)),
                      Tail(accounts), text)

CountStatus(results, statuses) ==
  Cardinality({i \in 1..Len(results) : results[i].status \in statuses})

OverallByErrors(active_count, error_count) ==
  IF error_count = 0
    THEN "healthy"
    ELSE IF active_count > 0 THEN "degraded" ELSE "critical"

Overall(active_count, error_count) ==
  IF active_count > 0 /\ error_count = 0
    THEN "healthy"
    ELSE IF active_count > 0 THEN "degraded" ELSE "critical"

AccountsResult(accounts, text) ==
  LET results == AccountsLoop(<<>>, accounts, text)
      active_count == CountStatus(results, {"active", "scheduled"})
      error_count == CountStatus(results, {"error", "missing"})
  IN [tool |-> "check_x_accounts", raised |-> FALSE,
      accounts |-> results,
      active |-> active_count,
      idle_or_rate_limited |-> CountStatus(results, {"idle", "rate_limited"}),
      errors |-> error_count,
      total |-> Len(accounts),
      overall |-> Overall(active_count, error_count)]

\* list(range(1, 18))
DefaultAccounts == [i \in 1..17 |-> i]

check_x_accounts(args) ==
  /\ arguments' = args
  /\ result' = AccountsResult(Get(args, "accounts", DefaultAccounts), logs)
  /\ UNCHANGED <<catalogFile, catalog, logs, cookies>>

----------------------------------------------------------------------------
(* Inputs of check_x_accounts.                                             *)

AcctNums == {1, 12}

LogLines == [x : BOOLEAN, acct : AcctNums,
             signal : {"none", "429", "pagination", "403"}]

InitAccounts ==
  /\ catalogFile = "missing"
  /\ catalog = DefaultCatalog
  /\ logs \in SeqsUpTo(LogLines, MaxLines)
  /\ cookies \in SUBSET AcctNums
  /\ arguments = NoArguments
  /\ result = NoResult

AccountsArgs == {NoArguments} \cup [accounts : SeqsUpTo(AcctNums, MaxAccounts)]

NextAccounts == \E args \in AccountsArgs : check_x_accounts(args)

SpecAccounts == InitAccounts /\ [][NextAccounts]_vars

----------------------------------------------------------------------------
(* Properties of check_x_accounts (under SpecAccounts).                    *)

Checked == result.tool = "check_x_accounts"

Requested == Get(arguments, "accounts", DefaultAccounts)

Records == result.accounts

Mined(r) == r.cookie_file

\* C4: for an identity whose cookie file is present the status follows the
\* precedence active (mentions > 0 and no error hits, whatever the rate-limit
\* hits), then rate_limited (rate-limit hits > 0), then error (error
\* hits > 0), then idle; exactly one of the four is assigned.
C4_Precedence ==
  Checked =>
    \A i \in 1..Len(Records) :
      LET r == Records[i] IN
      Mined(r) =>
        LET active == r.log_mentions > 0 /\ r.errors = 0
            limited == ~active /\ r.rate_limits > 0
            error == ~active /\ ~limited /\ r.errors > 0
        IN /\ r.status \in {"active", "rate_limited", "error", "idle"}
           /\ (r.status = "active") <=> active
           /\ (r.status = "rate_limited") <=> limited
           /\ (r.status = "error") <=> error
           /\ (r.status = "idle") <=> (~active /\ ~limited /\ ~error)

\* An identity that is active with rate-limit hits, and one that is
\* rate_limited with error hits.
C4_Witness ==
  /\ Checked
  /\ \E i, j \in 1..Len(Records) :
       /\ Mined(Records[i]) /\ Mined(Records[j])
       /\ Records[i].status = "active" /\ Records[i].rate_limits > 0
       /\ Records[j].status = "rate_limited" /\ Records[j].errors > 0

HowMany(statuses) ==
  Cardinality({i \in 1..Len(Records) : Records[i].status \in statuses})

\* C5: active_count counts the records with status active, error_count those
\* with error or missing, degraded_count those with idle or rate_limited; the
\* verdict is healthy iff active_count > 0 and error_count = 0, degraded iff
\* both are > 0, critical iff active_count = 0 (the empty fleet included).
C5_FleetVerdict ==
  Checked =>
    LET active_count == HowMany({"active"})
        error_count == HowMany({"error", "missing"})
        degraded_count == HowMany({"idle", "rate_limited"})
    IN /\ result.active = active_count
       /\ result.errors = error_count
       /\ result.idle_or_rate_limited = degraded_count
       /\ (result.overall = "healthy") <=> (active_count > 0 /\ error_count = 0)
       /\ (result.overall = "degraded") <=> (active_count > 0 /\ error_count > 0)
       /\ (result.overall = "critical") <=> (active_count = 0)

\* A fleet of two with no active identity and no error, which is critical.
C5_Witness ==
  /\ Checked
  /\ Len(Records) = 2
  /\ result.active = 0
  /\ result.errors = 0
  /\ result.idle_or_rate_limited = 2
  /\ result.overall = "critical"

\* C8: an identity whose cookie file is absent gets a record with status
\* missing and cookie_file false that holds none of the log-mining fields,
\* whatever the log says about the identity, and the record is counted in
\* the errors of the fleet.
C8_MissingNotMined ==
  Checked =>
    /\ \A i \in 1..Len(Requested) :
         Requested[i] \notin cookies =>
           /\ i \in 1..Len(Records)
           /\ Records[i].status = "missing"
           /\ Records[i].cookie_file = FALSE
           /\ DOMAIN Records[i] = {"account", "status", "cookie_file"}
    /\ result.errors >=
         Cardinality({i \in 1..Len(Requested) : Requested[i] \notin cookies})

\* A missing identity that the log mentions with an activity mark and a
\* signal.
C8_Witness ==
  /\ Checked
  /\ \E i \in 1..Len(Records) :
       /\ Records[i].status = "missing"
       /\ result.errors >= 1
       /\ \E k \in 1..Len(logs) :
            /\ logs[k].acct = Records[i].account
            /\ logs[k].x
            /\ logs[k].signal = "403"

\* The lines of the log that mention the account acc_num itself.
OwnLines(acc_num) ==
  LET Own(line) == line.acct = acc_num IN SelectSeq(logs, Own)

\* C9: the three counts of an identity are scoped to that identity: the lines
\* that mention only another identity's tag add nothing to them (and do not
\* change its status).
C9_CountsScoped ==
  Checked =>
    \A i \in 1..Len(Records) :
      LET r == Records[i] IN
      Mined(r) =>
        /\ r.log_mentions = ScheduledCount(r.account, OwnLines(r.account))
        /\ r.rate_limits = Scrape429s(r.account, OwnLines(r.account))
        /\ r.errors = ScrapeErrors(r.account, OwnLines(r.account))

\* C10 (as claimed): the records are in ascending order of identity number,
\* one per requested identity, whatever order the caller gave.
C10_Ascending_Claimed ==
  Checked =>
    /\ Len(Records) = Len(Requested)
    /\ \A i, j \in 1..Len(Records) : i < j => Records[i].account <= Records[j].account
    /\ {Records[i].account : i \in 1..Len(Records)}
         = {Requested[i] : i \in 1..Len(Requested)}

\* C10 (amended): the records are in the order in which the caller gave the
\* identity numbers, one record per element of the list given (the default
\* list is 1..17 ascending), and total is the length of that list.
C10_CallerOrder ==
  Checked =>
    /\ Len(Records) = Len(Requested)
    /\ \A i \in 1..Len(Requested) : Records[i].account = Requested[i]
    /\ result.total = Len(Requested)

\* A call that gives the identities in descending order.
C10_Witness ==
  /\ Checked
  /\ Len(Requested) = 2
  /\ Requested[1] > Requested[2]
  /\ Records[1].account > Records[2].account

====
